---- MODULE Spec2Model ----
(***************************************************************************)
(* A model of the Tauri CSV reader backend (src-tauri/src): the CsvRecord  *)
(* schema and its multi-value decoding (library/models.rs), the CSV parse, *)
(* the type-set aggregation, the folder listing and the logger setup       *)
(* (library/utils.rs) and the three request commands (lib.rs).             *)
(*                                                                         *)
(* Text is modelled as a sequence of one-character strings, so that        *)
(* splitting, trimming, case folding, comparing and number parsing are     *)
(* computed character by character, as the code does.                      *)
(***************************************************************************)
EXTENDS Integers, Sequences, FiniteSets, TLC

(***************************************************************************)
(* Bounds of the model.                                                    *)
(***************************************************************************)
MaxCell == 4
MaxRows == 2
MaxEntries == 3
MaxDay == 2
MaxLogLines == 4

(***************************************************************************)
(* Characters: the ASCII characters the model uses, in code-point order.   *)
(***************************************************************************)
Lowers == << "a", "b", "c", "d", "e", "f", "g", "h", "i", "j", "k", "l", "m",
             "n", "o", "p", "q", "r", "s", "t", "u", "v", "w", "x", "y", "z" >>
Uppers == << "A", "B", "C", "D", "E", "F", "G", "H", "I", "J", "K", "L", "M",
             "N", "O", "P", "Q", "R", "S", "T", "U", "V", "W", "X", "Y", "Z" >>
Digits == << "0", "1", "2", "3", "4", "5", "6", "7", "8", "9" >>
AsciiOrder == << "\t", "\n", " ", "+", ",", "-", "." >> \o Digits \o Uppers \o << "_" >> \o Lowers

Range(s) == { s[i] : i \in DOMAIN s }
IndexOf(s, c) == CHOOSE i \in DOMAIN s : s[i] = c
Ord(c) == IndexOf(AsciiOrder, c)

\* char::is_whitespace, on the characters of the model
IsWhitespace(c) == c \in { " ", "\t", "\n" }

\* char::to_lowercase / to_uppercase on ASCII
LowerChar(c) == IF c \in Range(Uppers) THEN Lowers[IndexOf(Uppers, c)] ELSE c
UpperChar(c) == IF c \in Range(Lowers) THEN Uppers[IndexOf(Lowers, c)] ELSE c

\* str::to_lowercase
to_lowercase(s) == [ i \in DOMAIN s |-> LowerChar(s[i]) ]

\* All texts over alphabet A of length at most n
Texts(A, n) == UNION { [ 1..k -> A ] : k \in 0..n }

(***************************************************************************)
(* str::trim, str::split(',') and deserialize_platform (models.rs 50-53).  *)
(***************************************************************************)
RECURSIVE trim_start(_)
trim_start(s) ==
    IF s # << >> /\ IsWhitespace(Head(s)) THEN trim_start(Tail(s)) ELSE s

RECURSIVE trim_end(_)
trim_end(s) ==
    IF s # << >> /\ IsWhitespace(s[Len(s)])
    THEN trim_end(SubSeq(s, 1, Len(s) - 1))
    ELSE s

trim(s) == trim_end(trim_start(s))

\* str::split(sep): scans left to right; every separator closes the current
\* piece, and the rest after the last separator is the final piece.
RECURSIVE split_from(_, _, _, _)
split_from(s, sep, i, piece) ==
    IF i > Len(s) THEN << piece >>
    ELSE IF s[i] = sep THEN << piece >> \o split_from(s, sep, i + 1, << >>)
    ELSE split_from(s, sep, i + 1, Append(piece, s[i]))

\* A plausible slip: empty pieces are dropped (split_terminator / filter).
split_skip_empty(s, sep) == SelectSeq(split_from(s, sep, 1, << >>), LAMBDA p : p # << >>)

split(s, sep) == split_from(s, sep, 1, << >>)

\* str.split(',').map(|str| str.trim().to_string()).collect()
deserialize_platform(str) ==
    LET pieces == split(str, ",")
    IN  [ i \in DOMAIN pieces |-> trim(pieces[i]) ]

(***************************************************************************)
(* Results.  Ok(v) and Err(..) of Rust's Result, Some(v) and None of       *)
(* Option.  A std::io::Error is its kind and its message; the message of   *)
(* an InvalidData error is the csv error's text, which carries the record  *)
(* position (row) and the decode detail (what, field).                     *)
(***************************************************************************)
Ok(v) == [ tag |-> "Ok", val |-> v ]
Some(v) == [ tag |-> "Some", val |-> v ]
None == [ tag |-> "None" ]
Message(text, row, what, field) == [ text |-> text, row |-> row, what |-> what, field |-> field ]
IoError(kind, msg) == [ tag |-> "Err", kind |-> kind, msg |-> msg ]
DecodeError(what, field) == [ tag |-> "Err", what |-> what, field |-> field ]

(***************************************************************************)
(* struct CsvRecord (models.rs 4-42): the fields in declaration order,     *)
(* with their serde attributes.  ty "Vec" fields are the five that carry   *)
(* deserialize_with = "deserialize_platform", default and                  *)
(* skip_serializing_if = "Vec::is_empty".                                  *)
(***************************************************************************)
Field(id, ident, rename, ty) == [ id |-> id, ident |-> ident, rename |-> rename, ty |-> ty ]

CsvRecord ==
    << Field("name", << "n", "a", "m", "e" >>, << >>, "String"),
       Field("notes", << "n", "o", "t", "e", "s" >>, << >>, "String"),
       Field("url", << "u", "r", "l" >>, << "U", "R", "L" >>, "String"),
       Field("level", << "l", "e", "v", "e", "l" >>, << >>, "u8"),
       Field("example", << "e", "x", "a", "m", "p", "l", "e" >>, << >>, "Option"),
       Field("platform", << "p", "l", "a", "t", "f", "o", "r", "m" >>, << >>, "Vec"),
       Field("type", << "t", "y", "p", "e" >>, << >>, "Vec"),
       Field("os", << "o", "s" >>, << "O", "S" >>, "Vec"),
       Field("language", << "l", "a", "n", "g", "u", "a", "g", "e" >>, << >>, "Vec"),
       Field("category", << "c", "a", "t", "e", "g", "o", "r", "y" >> , << >>, "Vec") >>

FieldIds == { CsvRecord[j].id : j \in DOMAIN CsvRecord }
MultiValueIds == { CsvRecord[j].id : j \in { k \in DOMAIN CsvRecord : CsvRecord[k].ty = "Vec" } }
FieldOf(id) == CsvRecord[CHOOSE j \in DOMAIN CsvRecord : CsvRecord[j].id = id]

\* #[serde(rename_all = "PascalCase")]: the first character, and each one
\* that follows an underscore, is upper-cased; underscores are dropped.
RECURSIVE PascalCaseFrom(_, _, _)
PascalCaseFrom(ident, i, capitalize) ==
    IF i > Len(ident) THEN << >>
    ELSE IF ident[i] = "_" THEN PascalCaseFrom(ident, i + 1, TRUE)
    ELSE << IF capitalize THEN UpperChar(ident[i]) ELSE ident[i] >>
         \o PascalCaseFrom(ident, i + 1, FALSE)

PascalCase(ident) == PascalCaseFrom(ident, 1, TRUE)

\* The name a field has in the source header and in the JSON output:
\* #[serde(rename = "..")] when given, the PascalCase of the identifier else.
SerdeName(f) == IF f.rename # << >> THEN f.rename ELSE PascalCase(f.ident)

\* A plausible reading of the schema: header names matched by folded case.
KeyMatchesFolded(key, f) == to_lowercase(key) = to_lowercase(SerdeName(f))

\* The derived field visitor matches a header name to a field by equality.
KeyMatches(key, f) == key = SerdeName(f)

(***************************************************************************)
(* Decoding of one cell.                                                   *)
(***************************************************************************)
DigitVal(c) == IndexOf(Digits, c) - 1

RECURSIVE DecimalValue(_)
DecimalValue(d) ==
    IF d = << >> THEN 0
    ELSE 10 * DecimalValue(SubSeq(d, 1, Len(d) - 1)) + DigitVal(d[Len(d)])

U8Max == 255

\* field.parse::<u8>(): an optional "+", then one or more decimal digits,
\* with a value of at most u8::MAX; no surrounding whitespace is accepted.
ParseU8(s) ==
    LET d == IF s # << >> /\ Head(s) = "+" THEN Tail(s) ELSE s
    IN  IF d = << >> \/ \E i \in DOMAIN d : d[i] \notin Range(Digits)
        THEN DecodeError("ParseInt", << >>)
        ELSE IF DecimalValue(d) > U8Max
        THEN DecodeError("ParseInt", << >>)
        ELSE Ok(DecimalValue(d))

\* The value of one field from its cell: String as is, u8 parsed,
\* Option<String> None for the empty cell, Vec<String> by
\* deserialize_platform (which cannot fail once the cell is a String).
DeserializeField(f, cell) ==
    CASE f.ty = "String" -> Ok(cell)
      [] f.ty = "u8" -> ParseU8(cell)
      [] f.ty = "Option" -> Ok(IF cell = << >> THEN None ELSE Some(cell))
      [] f.ty = "Vec" -> Ok(deserialize_platform(cell))

(***************************************************************************)
(* Decoding of one row against the header (the derived Deserialize of      *)
(* CsvRecord driven by csv's header map): the columns are visited in       *)
(* order, a column whose name matches no field is ignored, and the first   *)
(* failing cell ends the row; then the fields no column gave are filled    *)
(* in: None for the Option, the default for the Vec fields, and a          *)
(* missing-field error for the first required field in declaration order.  *)
(***************************************************************************)
Unset == [ tag |-> "Unset" ]

RECURSIVE visit_map(_, _, _, _)
visit_map(header, row, i, acc) ==
    IF i > Len(header) THEN Ok(acc)
    ELSE LET hit == { j \in DOMAIN CsvRecord : KeyMatches(header[i], CsvRecord[j]) }
         IN  IF hit = { } THEN visit_map(header, row, i + 1, acc)
             ELSE LET f == CsvRecord[CHOOSE j \in hit : \A k \in hit : j <= k]
                      v == DeserializeField(f, row[i])
                  IN  IF acc[f.id] # Unset
                      THEN DecodeError("duplicate field", SerdeName(f))
                      ELSE IF v.tag = "Err" THEN v
                      ELSE visit_map(header, row, i + 1, [ acc EXCEPT ![f.id] = Some(v.val) ])

\* The value of a field no column gave.
MissingField(f) ==
    CASE f.ty = "Option" -> Ok(None)
      [] f.ty = "Vec" -> Ok(<< >>)
      [] OTHER -> DecodeError("missing field", SerdeName(f))

DecodeRow(header, row) ==
    IF Len(row) # Len(header) THEN DecodeError("UnequalLengths", << >>)
    ELSE LET seen == visit_map(header, row, 1, [ id \in FieldIds |-> Unset ])
         IN  IF seen.tag = "Err" THEN seen
             ELSE LET filled == [ id \in FieldIds |->
                                    IF seen.val[id] # Unset THEN Ok(seen.val[id].val)
                                    ELSE MissingField(FieldOf(id)) ]
                      bad == { j \in DOMAIN CsvRecord : filled[CsvRecord[j].id].tag = "Err" }
                  IN  IF bad # { }
                      THEN filled[CsvRecord[CHOOSE j \in bad : \A k \in bad : j <= k].id]
                      ELSE Ok([ id \in FieldIds |-> filled[id].val ])

(***************************************************************************)
(* The derived Serialize of CsvRecord: a JSON object keyed by the serde    *)
(* names, without the fields whose skip_serializing_if predicate holds.    *)
(***************************************************************************)
\* A plausible slip: skip_serializing_if left off, every field written.
SkipNothing(f, v) == FALSE

\* skip_serializing_if: Option::is_none on example, Vec::is_empty on the
\* multi-value fields
SkipSerializing(f, v) ==
    CASE f.ty = "Option" -> v = None
      [] f.ty = "Vec" -> v = << >>
      [] OTHER -> FALSE

\* An Option is written as its value, None as null
JsonValue(f, v) == IF f.ty = "Option" THEN (IF v = None THEN "null" ELSE v.val) ELSE v

Serialize(record) ==
    LET kept == { j \in DOMAIN CsvRecord : ~SkipSerializing(CsvRecord[j], record[CsvRecord[j].id]) }
    IN  [ key \in { SerdeName(CsvRecord[j]) : j \in kept } |->
            LET f == CsvRecord[CHOOSE j \in kept : SerdeName(CsvRecord[j]) = key]
            IN  JsonValue(f, record[f.id]) ]

(***************************************************************************)
(* read_type_set's aggregation (utils.rs 45-48): every element of every    *)
(* record's type vector is inserted into the set, record by record.        *)
(***************************************************************************)
RECURSIVE insert_each(_, _, _)
insert_each(types, k, type_set) ==
    IF k > Len(types) THEN type_set
    ELSE insert_each(types, k + 1, type_set \cup { types[k] })

\* A plausible slip: only the first type of a record is inserted.
insert_first(types, k, type_set) ==
    IF types = << >> THEN type_set ELSE type_set \cup { types[1] }

insert_record(types, k, type_set) == insert_each(types, k, type_set)

RECURSIVE collect_types(_, _, _)
collect_types(records, i, type_set) ==
    IF i > Len(records) THEN type_set
    ELSE collect_types(records, i + 1, insert_record(records[i]["type"], 1, type_set))

(***************************************************************************)
(* folder_files's ordering (utils.rs 73): a stable sort by the comparison  *)
(* of the lower-cased names; str's Ord compares code points left to right, *)
(* a proper prefix being Less.                                             *)
(***************************************************************************)
RECURSIVE cmp(_, _)
cmp(a, b) ==
    IF a = << >> /\ b = << >> THEN 0
    ELSE IF a = << >> THEN -1
    ELSE IF b = << >> THEN 1
    ELSE IF Ord(Head(a)) < Ord(Head(b)) THEN -1
    ELSE IF Ord(Head(a)) > Ord(Head(b)) THEN 1
    ELSE cmp(Tail(a), Tail(b))

\* A plausible slip: the names compared as they are, case not folded.
compare_raw(name1, name2) == cmp(name1, name2)

\* |name1, name2| name1.to_lowercase().cmp(&name2.to_lowercase())
compare_names(name1, name2) == cmp(to_lowercase(name1), to_lowercase(name2))

\* x placed after every element that does not compare Greater than it
RECURSIVE insert_sorted(_, _)
insert_sorted(sorted, x) ==
    IF sorted = << >> THEN << x >>
    ELSE IF compare_names(Head(sorted), x) <= 0
    THEN << Head(sorted) >> \o insert_sorted(Tail(sorted), x)
    ELSE << x >> \o sorted

RECURSIVE sort_from(_, _, _)
sort_from(names, i, sorted) ==
    IF i > Len(names) THEN sorted
    ELSE sort_from(names, i + 1, insert_sorted(sorted, names[i]))

sort_by(names) == sort_from(names, 1, << >>)

(***************************************************************************)
(* The logger's line format and level filter (utils.rs 97-118).            *)
(***************************************************************************)
LevelRank(level) ==
    CASE level = "ERROR" -> 1 [] level = "WARN" -> 2 [] level = "INFO" -> 3
      [] level = "DEBUG" -> 4 [] level = "TRACE" -> 5

\* Env::default().default_filter_or("debug"): RUST_LOG when set, debug else
FilterFromEnv(rust_log) == IF rust_log = "" THEN "DEBUG" ELSE rust_log

\* writeln!(buffer, "{} [{}] {} - {}", now, level, target, args)
FormatLine(now, level, target, args) ==
    << now, " [", level, "] ", target, " - " >> \o args \o << "\n" >>

NoFile == [ tag |-> "NoFile" ]
NoLogger == [ tag |-> "NoLogger" ]

\* A plausible slip: the log file opened with truncate instead of append.
OpenTruncate(file) == [ tag |-> "File", bytes |-> << >> ]

\* OpenOptions::new().create(true).append(true).open(..): the file is
\* created empty when absent and left as it is otherwise.
OpenAppend(file) == IF file = NoFile THEN [ tag |-> "File", bytes |-> << >> ] ELSE file

\* One log call: the record is formatted and written to the pipe when a
\* logger is installed and its filter lets the level through.
LogWrites(lg, level) ==
    lg # NoLogger /\ LevelRank(level) <= LevelRank(lg.filter)

Emit(lg, files, now, level, target, args) ==
    IF LogWrites(lg, level)
    THEN [ files EXCEPT ![lg.day].bytes = @ \o FormatLine(now, level, target, args) ]
    ELSE files

NewlineCount(bytes) == Cardinality({ i \in DOMAIN bytes : bytes[i] = "\n" })

(***************************************************************************)
(* The state.                                                              *)
(*                                                                         *)
(* The environment: whether the resource directory resolves, whether the   *)
(* logs directory and file can be created, RUST_LOG, the local date, the   *)
(* document directory as read_dir yields it, the content of the CSV file   *)
(* document/<DataName>, and the log files by date.                         *)
(*                                                                         *)
(* The process: the installed logger, the position of the command being    *)
(* served (pc), the command and its filename, the locals of the parse      *)
(* (records, rowIdx), of the listing (file_names, entryIdx), the results   *)
(* of read_csv_file (parsed), read_type_set (types) and folder_files       *)
(* (listed), and the response handed back; they keep their last values     *)
(* until the next command starts.  fsTrace is the history of the           *)
(* filesystem accesses made for the command being served.                  *)
(***************************************************************************)
VARIABLES resolvable, logsWritable, rustLog, today, document, csv, logs,
          logger, pc, cmd, filename, records, rowIdx, parsed, types,
          file_names, entryIdx, listed, response, fsTrace, cell, pieces

envVars == << resolvable, logsWritable, rustLog, document, csv >>
parseVars == << records, rowIdx, parsed, types >>
listVars == << file_names, entryIdx, listed >>
cellVars == << cell, pieces >>
vars == << resolvable, logsWritable, rustLog, today, document, csv, logs,
           logger, pc, cmd, filename, records, rowIdx, parsed, types,
           file_names, entryIdx, listed, response, fsTrace, cell, pieces >>

Nothing == [ tag |-> "Nothing" ]
NoDir == [ tag |-> "NoDir" ]
Dir(entries) == [ tag |-> "Dir", entries |-> entries ]
File(header, rows) == [ tag |-> "File", header |-> header, rows |-> rows ]
Entry(name) == [ tag |-> "Ok", name |-> name ]
NonText == [ tag |-> "NonText" ]
EntryErr == [ tag |-> "Err" ]

DataName == << "d" >>
Target == "app_lib"
DateStamp(day) == << "2026-11-01", "2026-11-02", "2026-11-03", "2026-11-04" >>[day]
Days == 1..MaxDay

(***************************************************************************)
(* logger_setting (utils.rs 82-121), run once by the setup hook            *)
(* (lib.rs 85-88): resolve logs/, create it, open today's file for append  *)
(* and install the logger on it.  Any failure leaves the process without   *)
(* a logger, and the application goes on.                                  *)
(***************************************************************************)
\* The locals and results of a command, as a command starts
FreshLocals ==
    /\ records' = << >> /\ rowIdx' = 0 /\ parsed' = Nothing /\ types' = Nothing
    /\ file_names' = << >> /\ entryIdx' = 0 /\ listed' = Nothing

LoggerSetting ==
    /\ pc = "setup"
    /\ IF resolvable /\ logsWritable
       THEN /\ logs' = [ logs EXCEPT ![today] = OpenAppend(@) ]
            /\ logger' = [ tag |-> "Logger", day |-> today, filter |-> FilterFromEnv(rustLog) ]
       ELSE /\ logger' = NoLogger
            /\ UNCHANGED logs
    /\ pc' = "idle"
    /\ UNCHANGED << envVars, today, cmd, filename, parseVars, listVars, response, fsTrace, cellVars >>

\* The process ends and is started again: the files stay, the rest is new.
Restart ==
    /\ pc = "idle"
    /\ pc' = "setup"
    /\ logger' = NoLogger
    /\ cmd' = "none" /\ filename' = << >> /\ response' = Nothing /\ fsTrace' = << >>
    /\ FreshLocals
    /\ UNCHANGED << envVars, today, logs, cellVars >>

\* Midnight passes.
NextDay ==
    /\ today < MaxDay
    /\ today' = today + 1
    /\ UNCHANGED << envVars, logs, logger, pc, cmd, filename, parseVars, listVars,
                    response, fsTrace, cellVars >>

\* The lines written so far, over all the log files
RECURSIVE LinesUpTo(_, _)
LinesUpTo(files, d) ==
    IF d = 0 THEN 0
    ELSE LinesUpTo(files, d - 1)
         + (IF files[d] = NoFile THEN 0 ELSE NewlineCount(files[d].bytes))

LogLines == LinesUpTo(logs, MaxDay)
LoadingMessage(f) == << "Loading CSV file: " >> \o f
Logged(level) == IF LogWrites(logger, level) THEN << "log_write" >> ELSE << >>

(***************************************************************************)
(* read_csv (lib.rs 17-28).                                                *)
(***************************************************************************)
\* entry, and info!("Loading CSV file: {}", filename)
ReadCsv(f) ==
    /\ pc = "idle"
    /\ LogLines + 2 <= MaxLogLines
    /\ cmd' = "read_csv" /\ filename' = f /\ response' = Nothing
    /\ logs' = Emit(logger, logs, DateStamp(today), "INFO", Target, LoadingMessage(f))
    /\ fsTrace' = Logged("INFO")
    /\ pc' = "read_csv_debug"
    /\ FreshLocals
    /\ UNCHANGED << envVars, today, logger, cellVars >>

\* debug!("Loading CSV file: {}", filename), then the call of read_csv_file
ReadCsvDebug ==
    /\ pc = "read_csv_debug"
    /\ logs' = Emit(logger, logs, DateStamp(today), "DEBUG", Target, LoadingMessage(filename))
    /\ fsTrace' = fsTrace \o Logged("DEBUG")
    /\ pc' = "csv_file_path"
    /\ UNCHANGED << envVars, today, logger, cmd, filename, parseVars, listVars, response, cellVars >>

\* read_type (lib.rs 37-45): entry, and the call of read_type_set, which
\* calls read_csv_file
ReadType(f) ==
    /\ pc = "idle"
    /\ cmd' = "read_type" /\ filename' = f /\ response' = Nothing
    /\ fsTrace' = << >>
    /\ pc' = "csv_file_path"
    /\ FreshLocals
    /\ UNCHANGED << envVars, today, logs, logger, cellVars >>

(***************************************************************************)
(* read_csv_file (utils.rs 25-30): _csv_file_path, then _parse_csv_file.   *)
(***************************************************************************)
\* A plausible slip: the resource directory resolved before the filename
\* is looked at.
CsvFilePathResolveFirst ==
    /\ pc = "csv_file_path"
    /\ fsTrace' = Append(fsTrace, "resolve")
    /\ IF ~resolvable
       THEN /\ parsed' = IoError("NotFound", Message("unknown path", 0, "", << >>))
            /\ pc' = "parsed"
       ELSE IF filename = << >>
       THEN /\ parsed' = IoError("InvalidInput", Message("Filename cannot be empty", 0, "", << >>))
            /\ pc' = "parsed"
       ELSE pc' = "parse_open" /\ UNCHANGED parsed
    /\ UNCHANGED << envVars, today, logs, logger, cmd, filename, records, rowIdx, types,
                    listVars, response, cellVars >>

\* _csv_file_path (utils.rs 129-143)
CsvFilePath ==
    /\ pc = "csv_file_path"
    /\ IF filename = << >>
       THEN /\ parsed' = IoError("InvalidInput", Message("Filename cannot be empty", 0, "", << >>))
            /\ pc' = "parsed"
            /\ UNCHANGED fsTrace
       ELSE /\ fsTrace' = Append(fsTrace, "resolve")
            /\ IF resolvable
               THEN pc' = "parse_open" /\ UNCHANGED parsed
               ELSE /\ parsed' = IoError("NotFound", Message("unknown path", 0, "", << >>))
                    /\ pc' = "parsed"
    /\ UNCHANGED << envVars, today, logs, logger, cmd, filename, records, rowIdx, types,
                    listVars, response, cellVars >>

\* The file document/<filename>
FileAt(name) == IF name = DataName THEN csv ELSE NoFile

\* _parse_csv_file (utils.rs 150-160): the path is document/<filename>, never
\* empty; File::open fails with the filesystem's error, else a reader is made.
ParseOpen ==
    /\ pc = "parse_open"
    /\ fsTrace' = Append(fsTrace, "open")
    /\ IF FileAt(filename) = NoFile
       THEN /\ parsed' = IoError("NotFound", Message("No such file or directory (os error 2)", 0, "", << >>))
            /\ pc' = "parsed"
            /\ UNCHANGED << records, rowIdx >>
       ELSE /\ records' = << >> /\ rowIdx' = 0
            /\ pc' = "parse_rows"
            /\ UNCHANGED parsed
    /\ UNCHANGED << envVars, today, logs, logger, cmd, filename, types, listVars, response, cellVars >>

\* A plausible slip: a row that fails to decode is skipped, the rest is kept.
row_skip(recs, idx, decoded) ==
    IF decoded.tag = "Ok"
    THEN [ records |-> Append(recs, decoded.val), result |-> Nothing ]
    ELSE [ records |-> recs, result |-> Nothing ]

\* A plausible slip: the decoded record is put in front.
row_prepend(recs, idx, decoded) ==
    IF decoded.tag = "Ok"
    THEN [ records |-> << decoded.val >> \o recs, result |-> Nothing ]
    ELSE [ records |-> << >>,
           result |-> IoError("InvalidData",
                              Message("CSV deserialize error", idx, decoded.what, decoded.field)) ]

\* The body of the loop over reader.deserialize() (utils.rs 162-167), for
\* row idx: the record is pushed, or the call returns InvalidData with the
\* csv error's text and the records collected so far are dropped.
row_result(recs, idx, decoded) ==
    IF decoded.tag = "Ok"
    THEN [ records |-> Append(recs, decoded.val), result |-> Nothing ]
    ELSE [ records |-> << >>,
           result |-> IoError("InvalidData",
                              Message("CSV deserialize error", idx, decoded.what, decoded.field)) ]

ParseRow ==
    /\ pc = "parse_rows"
    /\ rowIdx < Len(csv.rows)
    /\ LET step == row_result(records, rowIdx + 1, DecodeRow(csv.header, csv.rows[rowIdx + 1]))
       IN  /\ rowIdx' = rowIdx + 1
           /\ records' = step.records
           /\ IF step.result = Nothing
              THEN UNCHANGED << parsed, pc >>
              ELSE parsed' = step.result /\ pc' = "parsed"
    /\ UNCHANGED << envVars, today, logs, logger, cmd, filename, types, listVars,
                    response, fsTrace, cellVars >>

\* The reader is exhausted: Ok(records) (utils.rs 169)
ParseDone ==
    /\ pc = "parse_rows"
    /\ rowIdx = Len(csv.rows)
    /\ parsed' = Ok(records)
    /\ records' = << >>
    /\ pc' = "parsed"
    /\ UNCHANGED << envVars, today, logs, logger, cmd, filename, rowIdx, types, listVars,
                    response, fsTrace, cellVars >>

\* read_type_set after read_csv_file (utils.rs 40-50)
TypeSet ==
    /\ pc = "parsed" /\ cmd = "read_type"
    /\ types' = IF parsed.tag = "Err" THEN parsed
                ELSE Ok(collect_types(parsed.val, 1, { }))
    /\ pc' = "typed"
    /\ UNCHANGED << envVars, today, logs, logger, cmd, filename, records, rowIdx, parsed,
                    listVars, response, fsTrace, cellVars >>

(***************************************************************************)
(* The response envelope (lib.rs 22-27, 39-44, 55-63):                     *)
(* json!({ "error": error.to_string() }) on Err, json!({ "result": .. })   *)
(* on Ok.  A JSON object is a function of its keys.                        *)
(***************************************************************************)
\* A plausible slip: an error answered with an empty result.
EnvelopeErrorAsResult(result, payload) ==
    IF result.tag = "Ok" THEN [ result |-> payload ] ELSE [ result |-> << >> ]

Envelope(result, payload) ==
    IF result.tag = "Ok" THEN [ result |-> payload ] ELSE [ error |-> result.msg ]

\* serde_json's value of a Vec<CsvRecord>
RecordsJson(result) ==
    IF result.tag = "Ok" THEN [ i \in DOMAIN result.val |-> Serialize(result.val[i]) ] ELSE << >>

\* The orders in which a HashSet's elements may be written
Orders(S) == { o \in [ 1..Cardinality(S) -> S ] : Range(o) = S }

RespondCsv ==
    /\ pc = "parsed" /\ cmd = "read_csv"
    /\ response' = Envelope(parsed, RecordsJson(parsed))
    /\ pc' = "idle"
    /\ UNCHANGED << envVars, today, logs, logger, cmd, filename, parseVars, listVars,
                    fsTrace, cellVars >>

RespondType ==
    /\ pc = "typed"
    /\ \E order \in (IF types.tag = "Ok" THEN Orders(types.val) ELSE { << >> }) :
           response' = Envelope(types, order)
    /\ pc' = "idle"
    /\ UNCHANGED << envVars, today, logs, logger, cmd, filename, parseVars, listVars,
                    fsTrace, cellVars >>

(***************************************************************************)
(* csv_list (lib.rs 53-64) and folder_files (utils.rs 58-77).              *)
(***************************************************************************)
\* entry, and app.path().resolve("document", BaseDirectory::Resource)
CsvList ==
    /\ pc = "idle"
    /\ cmd' = "csv_list" /\ filename' = << >> /\ response' = Nothing
    /\ fsTrace' = << "resolve" >>
    /\ records' = << >> /\ rowIdx' = 0 /\ parsed' = Nothing /\ types' = Nothing
    /\ file_names' = << >> /\ entryIdx' = 0
    /\ IF resolvable
       THEN pc' = "read_dir" /\ listed' = Nothing
       ELSE /\ listed' = IoError("UnknownPath", Message("unknown path", 0, "", << >>))
            /\ pc' = "listed"
    /\ UNCHANGED << envVars, today, logs, logger, cellVars >>

\* read_dir(&path) (utils.rs 60-64)
ReadDir ==
    /\ pc = "read_dir"
    /\ fsTrace' = Append(fsTrace, "read_dir")
    /\ IF document = NoDir
       THEN /\ listed' = IoError("NotFound", Message("No such file or directory (os error 2)", 0, "", << >>))
            /\ pc' = "listed"
            /\ UNCHANGED << file_names, entryIdx >>
       ELSE /\ file_names' = << >> /\ entryIdx' = 0
            /\ pc' = "entries"
            /\ UNCHANGED listed
    /\ UNCHANGED << envVars, today, logs, logger, cmd, filename, parseVars, response, cellVars >>

\* The body of the loop over the entries (utils.rs 65-71): the name is
\* pushed when the entry was read and its name is valid text.
push_name(names, entry) ==
    IF entry.tag = "Ok" THEN Append(names, entry.name) ELSE names

DirEntry ==
    /\ pc = "entries"
    /\ entryIdx < Len(document.entries)
    /\ entryIdx' = entryIdx + 1
    /\ file_names' = push_name(file_names, document.entries[entryIdx + 1])
    /\ UNCHANGED << envVars, today, logs, logger, pc, cmd, filename, parseVars, listed,
                    response, fsTrace, cellVars >>

\* file_names.sort_by(..); Ok(file_names) (utils.rs 73-74)
SortNames ==
    /\ pc = "entries"
    /\ entryIdx = Len(document.entries)
    /\ listed' = Ok(sort_by(file_names))
    /\ file_names' = << >>
    /\ pc' = "listed"
    /\ UNCHANGED << envVars, today, logs, logger, cmd, filename, parseVars, entryIdx,
                    response, fsTrace, cellVars >>

RespondList ==
    /\ pc = "listed"
    /\ response' = Envelope(listed, IF listed.tag = "Ok" THEN listed.val ELSE << >>)
    /\ pc' = "idle"
    /\ UNCHANGED << envVars, today, logs, logger, cmd, filename, parseVars, listVars,
                    fsTrace, cellVars >>

(***************************************************************************)
(* deserialize_platform applied to one raw cell.                           *)
(***************************************************************************)
DeserializePlatform ==
    /\ pc = "cell"
    /\ pieces' = deserialize_platform(cell)
    /\ pc' = "cell_done"
    /\ UNCHANGED << envVars, today, logs, logger, cmd, filename, parseVars, listVars,
                    response, fsTrace, cell >>

(***************************************************************************)
(* Inputs.                                                                 *)
(***************************************************************************)
OtherName == << "x" >>
Filenames == { << >>, DataName, OtherName }

HName == << "N", "a", "m", "e" >>
HNotes == << "N", "o", "t", "e", "s" >>
HURL == << "U", "R", "L" >>
HUrl == << "U", "r", "l" >>
Hurl == << "u", "r", "l" >>
HLevel == << "L", "e", "v", "e", "l" >>
HExample == << "E", "x", "a", "m", "p", "l", "e" >>
HPlatform == << "P", "l", "a", "t", "f", "o", "r", "m" >>
HType == << "T", "y", "p", "e" >>
HOS == << "O", "S" >>
Hos == << "o", "s" >>
HLanguage == << "L", "a", "n", "g", "u", "a", "g", "e" >>
HCategory == << "C", "a", "t", "e", "g", "o", "r", "y" >>

Headers ==
    { << HName, HNotes, HURL, HLevel, HType >>,
      << HName, HNotes, HURL, HLevel >>,
      << HName, HNotes, HURL, HLevel, HPlatform, HOS, HLanguage, HCategory >>,
      << HName, HNotes, HURL, HLevel, HExample >>,
      << HName, HNotes, HURL, HLevel, Hos >>,
      << HName, HNotes, Hurl, HLevel >>,
      << HName, HNotes, HUrl, HLevel >>,
      << HName, HNotes, HLevel >>,
      << HName, HURL, HLevel >>,
      << HNotes, HURL, HLevel >> }

LevelCells == { << "2", "5", "5" >>, << "2", "5", "6" >>, << "a" >> }
TypeCells == { << "A", ",", "B" >>, << "B", ",", " ", "C" >> }

CellChoices(column) ==
    CASE column = HLevel -> LevelCells
      [] column = HType -> TypeCells
      [] column = HExample -> { << >>, << "e" >> }
      [] column = HPlatform -> { << >>, << "p", ",", "q" >> }
      [] OTHER -> { << Head(to_lowercase(column)) >> }

\* The rows a header admits: one cell per column, or a row cut short
RECURSIVE RowsFrom(_, _)
RowsFrom(header, i) ==
    IF i > Len(header) THEN { << >> }
    ELSE { << c >> \o rest : c \in CellChoices(header[i]), rest \in RowsFrom(header, i + 1) }

RowChoices(header) == RowsFrom(header, 1) \cup { << << "n" >> >> }

ParseFiles ==
    { NoFile } \cup
    UNION { { File(h, rows) : rows \in UNION { [ 1..k -> RowChoices(h) ] : k \in 0..MaxRows } }
            : h \in Headers }

GoodRow == << << "n" >>, << "t" >>, << "u" >>, << "7" >>, << "A", ",", "B" >> >>
BadRow == << << "n" >>, << "t" >>, << "u" >>, << "3", "0", "0" >>, << "C" >> >>
AppFiles1 == File(<< HName, HNotes, HURL, HLevel, HType >>, << GoodRow >>)
AppFiles2 == File(<< HName, HNotes, HURL, HLevel, HType >>, << GoodRow, BadRow >>)
AppFiles == { NoFile, AppFiles1, AppFiles2 }

EntryNames == { << "a" >>, << "A" >>, << "b" >>, << "B" >>, << "_" >>, << "A", "b" >> }
EntryChoices == { Entry(n) : n \in EntryNames } \cup { NonText, EntryErr }

\* read_dir yields every name once
DistinctNames(entries) ==
    \A i, j \in DOMAIN entries :
        (i # j /\ entries[i].tag = "Ok" /\ entries[j].tag = "Ok") => entries[i].name # entries[j].name

ListDirs ==
    { NoDir } \cup
    { Dir(e) : e \in { x \in UNION { [ 1..k -> EntryChoices ] : k \in 0..MaxEntries } : DistinctNames(x) } }

CellAlphabet == { "a", "b", ",", " " }

(***************************************************************************)
(* Initial states and specifications.                                      *)
(***************************************************************************)
InitRequest ==
    /\ cmd = "none" /\ filename = << >>
    /\ records = << >> /\ rowIdx = 0 /\ parsed = Nothing /\ types = Nothing
    /\ file_names = << >> /\ entryIdx = 0 /\ listed = Nothing
    /\ response = Nothing /\ fsTrace = << >>

DataDir == Dir(<< Entry(<< "b" >>), NonText, Entry(DataName), Entry(<< "A" >>) >>)
Install(r, w, env, file, dir) ==
    [ resolvable |-> r, logsWritable |-> w, rustLog |-> env, csv |-> file, document |-> dir ]

\* The installations the application is started on: one whose resource
\* directory does not resolve; read-only ones (no logs directory can be
\* made) with the CSV file absent, good, or good up to a bad row; and
\* writable ones, with and without RUST_LOG.
Installations ==
    { Install(FALSE, FALSE, "", NoFile, NoDir) }
    \cup { Install(TRUE, FALSE, "", NoFile, d) : d \in { NoDir, Dir(<< >>) } }
    \cup { Install(TRUE, FALSE, "", f, DataDir) : f \in AppFiles \ { NoFile } }
    \cup { Install(TRUE, TRUE, "", AppFiles2, DataDir),
           Install(TRUE, TRUE, "INFO", NoFile, Dir(<< >>)) }

\* The application as it starts, on a resource root without log files.
Init ==
    /\ \E i \in Installations :
           /\ resolvable = i.resolvable /\ logsWritable = i.logsWritable
           /\ rustLog = i.rustLog /\ csv = i.csv /\ document = i.document
    /\ today = 1
    /\ logs = [ d \in Days |-> NoFile ]
    /\ logger = NoLogger
    /\ pc = "setup"
    /\ InitRequest
    /\ cell = << >> /\ pieces = << >>

Next ==
    \/ LoggerSetting
    \/ Restart
    \/ NextDay
    \/ \E f \in { << >>, DataName } : ReadCsv(f)
    \/ ReadCsvDebug
    \/ \E f \in { << >>, DataName } : ReadType(f)
    \/ CsvFilePath
    \/ ParseOpen
    \/ ParseRow
    \/ ParseDone
    \/ TypeSet
    \/ RespondCsv
    \/ RespondType
    \/ CsvList
    \/ ReadDir
    \/ DirEntry
    \/ SortNames
    \/ RespondList

Spec == Init /\ [][Next]_vars

\* The process after a setup that could not create the logs directory,
\* serving read_csv and read_type over every file of ParseFiles.
InitParse ==
    /\ resolvable = TRUE /\ logsWritable = FALSE
    /\ rustLog = ""
    /\ today = 1
    /\ csv \in ParseFiles
    /\ document = (IF csv = NoFile THEN Dir(<< >>) ELSE Dir(<< Entry(DataName) >>))
    /\ logs = [ d \in Days |-> NoFile ]
    /\ logger = NoLogger
    /\ pc = "idle"
    /\ InitRequest
    /\ cell = << >> /\ pieces = << >>

NextParse ==
    \/ \E f \in Filenames : ReadCsv(f)
    \/ ReadCsvDebug
    \/ \E f \in Filenames : ReadType(f)
    \/ CsvFilePath
    \/ ParseOpen
    \/ ParseRow
    \/ ParseDone
    \/ TypeSet
    \/ RespondCsv
    \/ RespondType

SpecParse == InitParse /\ [][NextParse]_vars

\* The same process serving csv_list over every directory of ListDirs.
InitList ==
    /\ resolvable \in BOOLEAN /\ logsWritable = FALSE
    /\ rustLog = ""
    /\ today = 1
    /\ csv = NoFile
    /\ document \in ListDirs
    /\ logs = [ d \in Days |-> NoFile ]
    /\ logger = NoLogger
    /\ pc = "idle"
    /\ InitRequest
    /\ cell = << >> /\ pieces = << >>

NextList ==
    \/ CsvList
    \/ ReadDir
    \/ DirEntry
    \/ SortNames
    \/ RespondList

SpecList == InitList /\ [][NextList]_vars

\* deserialize_platform over every raw cell of at most MaxCell characters.
InitCell ==
    /\ resolvable = TRUE /\ logsWritable = FALSE
    /\ rustLog = ""
    /\ today = 1
    /\ csv = NoFile
    /\ document = NoDir
    /\ logs = [ d \in Days |-> NoFile ]
    /\ logger = NoLogger
    /\ pc = "cell"
    /\ InitRequest
    /\ cell \in Texts(CellAlphabet, MaxCell) /\ pieces = << >>

NextCell == DeserializePlatform

SpecCell == InitCell /\ [][NextCell]_vars

(***************************************************************************)
(* Properties.                                                             *)
(***************************************************************************)
IsPrefix(a, b) == Len(a) <= Len(b) /\ SubSeq(b, 1, Len(a)) = a
Min(S) == CHOOSE i \in S : \A k \in S : i <= k

\* The parse of the CSV file has run to its end for the command served
ParsedFile ==
    /\ pc \in { "parsed", "typed", "idle" }
    /\ cmd \in { "read_csv", "read_type" }
    /\ filename = DataName /\ resolvable /\ csv # NoFile

\* The data rows that do not decode against the schema
BadRows == { i \in DOMAIN csv.rows : DecodeRow(csv.header, csv.rows[i]).tag = "Err" }

\* C1: the parse is atomic on failure.  When some data row of the file does
\* not decode, read_csv_file returns an InvalidData error that names the
\* first such row, returns no records (the ones collected are dropped, and
\* the response carries the error alone), and the reader never went past
\* that row; while the loop runs, every row read so far has decoded.
C1_AtomicFailure ==
    /\ (pc = "parse_rows") =>
           /\ \A j \in 1..rowIdx : j \notin BadRows
           /\ Len(records) = rowIdx
    /\ (ParsedFile /\ BadRows # { }) =>
           /\ parsed.tag = "Err"
           /\ parsed.kind = "InvalidData"
           /\ parsed.msg.row = Min(BadRows)
           /\ "val" \notin DOMAIN parsed
           /\ records = << >>
           /\ rowIdx = Min(BadRows)
           /\ (pc = "idle" => DOMAIN response = { "error" })
    /\ (ParsedFile /\ parsed.tag = "Err") => BadRows # { }

\* C1 witness: the second row carries a Level that is no u8 and the first
\* row had decoded; the call has failed on row 2.
C1_Witness ==
    /\ pc = "parsed" /\ cmd = "read_csv" /\ filename = DataName
    /\ parsed.tag = "Err" /\ parsed.kind = "InvalidData"
    /\ parsed.msg.row = 2 /\ parsed.msg.what = "ParseInt"
    /\ Len(csv.rows) = 2

\* i-th comma of the cell, and the bounds of its i-th comma-delimited piece
Commas(s) == { i \in DOMAIN s : s[i] = "," }
NthComma(s, n) == CHOOSE i \in Commas(s) : Cardinality({ j \in Commas(s) : j < i }) = n - 1
RawPiece(s, i) ==
    SubSeq(s,
           IF i = 1 THEN 1 ELSE NthComma(s, i - 1) + 1,
           IF i = Cardinality(Commas(s)) + 1 THEN Len(s) ELSE NthComma(s, i) - 1)

\* t is x without its leading and trailing whitespace
IsTrimOf(t, x) ==
    /\ t # << >> => ~IsWhitespace(t[1]) /\ ~IsWhitespace(t[Len(t)])
    /\ \E a \in 0..Len(x) :
           /\ a + Len(t) <= Len(x)
           /\ SubSeq(x, a + 1, a + Len(t)) = t
           /\ \A j \in 1..a : IsWhitespace(x[j])
           /\ \A j \in (a + Len(t) + 1)..Len(x) : IsWhitespace(x[j])

\* C2: a raw multi-value cell with N comma-separated values (N - 1 commas)
\* decodes to exactly N texts, the i-th being the i-th comma-delimited
\* piece of the cell without its surrounding whitespace; the empty cell
\* decodes to the one-element sequence holding the empty text.
C2_SplitTrim ==
    pc = "cell_done" =>
        /\ Len(pieces) = Cardinality(Commas(cell)) + 1
        /\ \A i \in DOMAIN pieces : IsTrimOf(pieces[i], RawPiece(cell, i))
        /\ (cell = << >> => pieces = << << >> >>)

\* C2 witness: "a, b" has decoded to "a" and "b".
C2_Witness ==
    /\ pc = "cell_done"
    /\ cell = << "a", ",", " ", "b" >>
    /\ pieces = << << "a" >>, << "b" >> >>

\* C3: on success the records are the decodings of the data rows, one per
\* row and in file order, at every point of the loop, in the returned
\* vector and in the JSON array of the response.
C3_RowOrder ==
    /\ (pc = "parse_rows") =>
           /\ Len(records) = rowIdx
           /\ \A i \in 1..Len(records) : Ok(records[i]) = DecodeRow(csv.header, csv.rows[i])
    /\ (ParsedFile /\ parsed.tag = "Ok") =>
           /\ Len(parsed.val) = Len(csv.rows)
           /\ \A i \in DOMAIN csv.rows : Ok(parsed.val[i]) = DecodeRow(csv.header, csv.rows[i])
           /\ (pc = "idle" /\ cmd = "read_csv") =>
                  /\ DOMAIN response = { "result" }
                  /\ Len(response.result) = Len(csv.rows)
                  /\ \A i \in DOMAIN csv.rows :
                         response.result[i] = Serialize(DecodeRow(csv.header, csv.rows[i]).val)

\* C3 witness: a file of two different rows has been parsed.
C3_Witness ==
    /\ pc = "idle" /\ cmd = "read_csv" /\ filename = DataName
    /\ parsed.tag = "Ok" /\ Len(parsed.val) = 2
    /\ csv.rows[1] # csv.rows[2]
    /\ response.result[1] # response.result[2]

\* C4: read_type_set returns the union of the type vectors of the parsed
\* records, and the error of the parse, unchanged, when the parse failed;
\* the array written for the set has every element once.
C4_TypeUnion ==
    (pc \in { "typed", "idle" } /\ cmd = "read_type") =>
        /\ parsed.tag = "Err" => types = parsed
        /\ parsed.tag = "Ok" =>
               /\ types.tag = "Ok"
               /\ types.val = UNION { Range(parsed.val[i]["type"]) : i \in DOMAIN parsed.val }
               /\ pc = "idle" =>
                      /\ Range(response.result) = types.val
                      /\ Len(response.result) = Cardinality(types.val)

\* C4 witness: records of type [A, B] and [B, C] gave the set {A, B, C}.
C4_Witness ==
    /\ pc = "typed" /\ cmd = "read_type"
    /\ parsed.tag = "Ok" /\ Len(parsed.val) = 2
    /\ parsed.val[1]["type"] = << << "A" >>, << "B" >> >>
    /\ parsed.val[2]["type"] = << << "B" >>, << "C" >> >>
    /\ types = Ok({ << "A" >>, << "B" >>, << "C" >> })

\* The names read_dir gives as valid text
TextNames == { document.entries[i].name :
                 i \in { k \in DOMAIN document.entries : document.entries[k].tag = "Ok" } }

\* C5: folder_files on a directory that opens returns the valid-text names
\* of its entries, each once (entries without a text name and entries that
\* fail to read are left out and fail nothing), in ascending order of their
\* lower-cased form; it fails exactly when the directory does not open.
C5_SortedListing ==
    (pc \in { "listed", "idle" } /\ cmd = "csv_list" /\ resolvable) =>
        /\ listed.tag = "Err" <=> document = NoDir
        /\ listed.tag = "Ok" =>
               /\ Range(listed.val) = TextNames
               /\ Len(listed.val) = Cardinality(TextNames)
               /\ \A i \in 1..(Len(listed.val) - 1) :
                      cmp(to_lowercase(listed.val[i]), to_lowercase(listed.val[i + 1])) <= 0

\* C5 witness: the entries b, A, a were listed as A, a, b.
C5_Witness ==
    /\ pc = "listed" /\ cmd = "csv_list"
    /\ document = Dir(<< Entry(<< "b" >>), Entry(<< "A" >>), Entry(<< "a" >>) >>)
    /\ listed = Ok(<< << "A" >>, << "a" >>, << "b" >> >>)

\* A command called with the empty filename
EmptyFilenameCall == cmd \in { "read_csv", "read_type" } /\ filename = << >>

\* C6 as stated: no step of a read_csv or read_type call with an empty
\* filename is a filesystem access.
C6_NoFilesystemAccess == EmptyFilenameCall => fsTrace = << >>

\* C6 as amended: a call with the empty filename fails with InvalidInput
\* ("Filename cannot be empty") without resolving the resource directory,
\* opening a file or reading a directory; read_type touches the filesystem
\* not at all, and read_csv only by the log lines it writes on entry, before
\* the check, when a logger is installed.
C6_InvalidInputFirst ==
    EmptyFilenameCall =>
        /\ pc \notin { "parse_open", "parse_rows" }
        /\ \A k \in DOMAIN fsTrace : fsTrace[k] = "log_write"
        /\ cmd = "read_type" => fsTrace = << >>
        /\ logger = NoLogger => fsTrace = << >>
        /\ pc \in { "parsed", "typed", "idle" } =>
               /\ parsed.tag = "Err"
               /\ parsed.kind = "InvalidInput"
        /\ pc = "idle" =>
               /\ DOMAIN response = { "error" }
               /\ response.error.text = "Filename cannot be empty"

\* C6 witness: read_csv("") has answered with the error, having written its
\* two log lines and nothing else.
C6_Witness ==
    /\ pc = "idle" /\ cmd = "read_csv" /\ filename = << >>
    /\ fsTrace = << "log_write", "log_write" >>
    /\ DOMAIN response = { "error" }

\* The result the command served hands to its envelope
Outcome ==
    CASE cmd = "read_csv" -> parsed
      [] cmd = "read_type" -> types
      [] cmd = "csv_list" -> listed

\* A command being served stands at a step of its handler that can be taken
CanStep ==
    \/ pc = "read_csv_debug" /\ cmd = "read_csv"
    \/ pc \in { "csv_file_path", "parse_open" } /\ cmd \in { "read_csv", "read_type" }
    \/ pc = "parse_rows" /\ csv # NoFile /\ rowIdx <= Len(csv.rows)
    \/ pc = "parsed" /\ cmd \in { "read_csv", "read_type" } /\ parsed.tag \in { "Ok", "Err" }
    \/ pc = "typed" /\ types.tag \in { "Ok", "Err" }
    \/ pc = "read_dir" /\ cmd = "csv_list"
    \/ pc = "entries" /\ document # NoDir /\ entryIdx <= Len(document.entries)
    \/ pc = "listed" /\ listed.tag \in { "Ok", "Err" }

\* C7: every call of read_csv, read_type and csv_list ends with a response
\* of exactly one key: "result" when the underlying operation returned Ok,
\* "error", with the error's message, when it (or the resolution of the
\* resource directory) returned Err; and a command being served always
\* stands at a step it can take, so no failure ends it any other way.
C7_Envelope ==
    /\ (pc = "idle" /\ cmd # "none") =>
           /\ Outcome.tag \in { "Ok", "Err" }
           /\ Outcome.tag = "Ok" => DOMAIN response = { "result" }
           /\ Outcome.tag = "Err" =>
                  /\ DOMAIN response = { "error" }
                  /\ response.error = Outcome.msg
                  /\ response.error.text # ""
    /\ (pc \notin { "idle", "setup" }) => CanStep

\* C7 witness: csv_list has answered with the error of a directory that
\* does not open.
C7_Witness ==
    /\ pc = "idle" /\ cmd = "csv_list"
    /\ listed.tag = "Err" /\ listed.kind = "NotFound"
    /\ DOMAIN response = { "error" }

\* The header name of each multi-value field and of Example
ColumnOf(id) ==
    CASE id = "platform" -> HPlatform [] id = "type" -> HType [] id = "os" -> HOS
      [] id = "language" -> HLanguage [] id = "category" -> HCategory
      [] id = "example" -> HExample

FoldedHeader(header) ==
    [ c \in DOMAIN header |->
        IF to_lowercase(header[c]) = to_lowercase(HURL) THEN HURL
        ELSE IF to_lowercase(header[c]) = to_lowercase(HOS) THEN HOS
        ELSE header[c] ]

\* C9 as stated: the columns of url and os are found whatever the case of
\* their header names, so a file parses as it would with them spelled URL
\* and OS.
C9_CaseInsensitive ==
    (ParsedFile /\ \A i \in DOMAIN csv.rows :
                       DecodeRow(FoldedHeader(csv.header), csv.rows[i]).tag = "Ok") =>
        /\ parsed.tag = "Ok"
        /\ \A i \in DOMAIN csv.rows :
               parsed.val[i] = DecodeRow(FoldedHeader(csv.header), csv.rows[i]).val

\* C9 as amended: url is taken from the column whose header name is exactly
\* URL, and os from the column named exactly OS.  A file with a data row
\* and no column named exactly URL (one spelled url or Url included) fails
\* on its first row with InvalidData; a column spelled os is ignored and
\* leaves os the empty sequence.
C9_ExactMatch ==
    ParsedFile =>
        /\ parsed.tag = "Ok" =>
               \A i \in DOMAIN parsed.val :
                   /\ \E c \in DOMAIN csv.header :
                          csv.header[c] = HURL /\ parsed.val[i]["url"] = csv.rows[i][c]
                   /\ IF HOS \in Range(csv.header)
                      THEN \E c \in DOMAIN csv.header :
                               /\ csv.header[c] = HOS
                               /\ parsed.val[i]["os"] = deserialize_platform(csv.rows[i][c])
                      ELSE parsed.val[i]["os"] = << >>
        /\ (HURL \notin Range(csv.header) /\ csv.rows # << >>) =>
               /\ parsed.tag = "Err"
               /\ parsed.kind = "InvalidData"
               /\ parsed.msg.row = 1

\* C9 witness: a file whose header spells the column url has failed with
\* the missing field URL.
C9_Witness ==
    /\ pc = "parsed" /\ cmd = "read_csv" /\ filename = DataName /\ csv # NoFile
    /\ Hurl \in Range(csv.header)
    /\ parsed.tag = "Err" /\ parsed.kind = "InvalidData"
    /\ parsed.msg.what = "missing field" /\ parsed.msg.field = HURL

\* What a step added to a file
Added(old, new) == SubSeq(new.bytes, Len(old.bytes) + 1, Len(new.bytes))
OneLine(bytes) == bytes # << >> /\ bytes[Len(bytes)] = "\n" /\ NewlineCount(bytes) = 1

\* C10: the log files are append-only over setup, logging, midnight and
\* restart.  In every step each existing log file stays, with its content a
\* prefix of the new content; a file appears only in logger_setting, empty
\* and under today's date; what a step adds to a file is exactly one line
\* ended by a newline; and a log call that passes the filter of an
\* installed logger does add its line.
C10_Step ==
    /\ \A d \in Days :
           /\ logs[d] # NoFile =>
                  /\ logs'[d] # NoFile
                  /\ IsPrefix(logs[d].bytes, logs'[d].bytes)
                  /\ logs'[d] # logs[d] =>
                         /\ OneLine(Added(logs[d], logs'[d]))
                         /\ logger # NoLogger /\ logger.day = d
           /\ (logs[d] = NoFile /\ logs'[d] # NoFile) =>
                  /\ pc = "setup" /\ d = today
                  /\ logs'[d].bytes = << >>
    /\ (pc = "idle" /\ pc' = "read_csv_debug" /\ LogWrites(logger, "INFO")) =>
           logs'[logger.day] # logs[logger.day]
    /\ (pc = "read_csv_debug" /\ pc' = "csv_file_path" /\ LogWrites(logger, "DEBUG")) =>
           logs'[logger.day] # logs[logger.day]

====
